---- MODULE Spec2Model ----
(***************************************************************************)
(* A model of xbps.util: Package construction (package.py), the repodata   *)
(* loading pipeline and Repodata.compute_stage (repodata.py).              *)
(*                                                                         *)
(* Python strings that the code takes apart are sequences of one-character *)
(* strings; strings it only compares (package names, shared-library names, *)
(* archive member names) are TLA+ strings.  A dict is a sequence of        *)
(* <<key, value>> pairs with distinct keys, in insertion order.            *)
(***************************************************************************)
EXTENDS Integers, Sequences, FiniteSets, TLC

\* ------------------------------------------------------------------ bounds
\* Total number of shared-library entries over all packages of a repodata.
MaxEntries == 3
\* Total number of shlib attributes omitted over all packages of a repodata.
MaxOmitted == 1
\* Longest string handed to Package construction.
MaxStrLen == 5

Names == {"A", "B"}
Libs == {"libfoo.so.1", "libbar.so.2"}

VARIABLES
    pc,           \* position of the call in progress
    archive,      \* the repodata file: what each step of reading it will meet
    f,            \* _read_repodata: the member whose stream f holds
    idx,          \* _read_index: local idx
    items,        \* history: the items of the decoded property list consumed so far
    index,        \* _read_repodata: local index
    stage,        \* _read_repodata: local stage
    decoded,      \* history: member name -> the RepoIndex _read_index returned for it
    rd,           \* the Repodata instance
    old_shlibs,   \* compute_stage: local old_shlibs
    used_shlibs,  \* compute_stage: local used_shlibs
    res,          \* compute_stage: local res / the returned list
    exc,          \* the exception that ended the call, if any
    reads,        \* history: number of package attributes compute_stage has read
    kwargs,       \* Package(**kwargs): the attribute mapping
    pkg,          \* the Package under construction / constructed
    out           \* the value of the property read last

vars == <<pc, archive, f, idx, items, index, stage, decoded, rd, old_shlibs, used_shlibs,
          res, exc, reads, kwargs, pkg, out>>
loadVars == <<archive, f, idx, items, index, stage, decoded, rd>>
stageVars == <<old_shlibs, used_shlibs, res, reads>>
pkgVars == <<kwargs, pkg, out>>

\* ------------------------------------------------------------ dict helpers
KeySeq(d) == [i \in DOMAIN d |-> d[i][1]]
KeySet(d) == {d[i][1] : i \in DOMAIN d}
Has(d, k) == k \in KeySet(d)
Get(d, k) == d[CHOOSE i \in DOMAIN d : d[i][1] = k][2]
\* d[k] = v: an existing key keeps its position
Put(d, k, v) ==
    IF Has(d, k)
    THEN [i \in DOMAIN d |-> IF d[i][1] = k THEN <<k, v>> ELSE d[i]]
    ELSE Append(d, <<k, v>>)
\* del d[k]
Del(d, k) == SelectSeq(d, LAMBDA e : e[1] # k)

\* Sequences over S of length at most n
SeqsUpTo(S, n) == UNION {[1..k -> S] : k \in 0..n}

\* ------------------------------------------------------------- exceptions
NoExc == [type |-> "none", arg |-> "none"]
Raise(t, a) == [type |-> t, arg |-> a]

\* ------------------------------------------------------------- str methods
\* Index of the first / last occurrence of the character sep in s, 0 if none
FindFirst(s, sep) ==
    IF \E i \in DOMAIN s : s[i] = sep
    THEN CHOOSE i \in DOMAIN s : s[i] = sep /\ \A j \in 1..(i - 1) : s[j] # sep
    ELSE 0
FindLast(s, sep) ==
    IF \E i \in DOMAIN s : s[i] = sep
    THEN CHOOSE i \in DOMAIN s : s[i] = sep /\ \A j \in (i + 1)..Len(s) : s[j] # sep
    ELSE 0

\* str.partition(sep): (before, sep, after) around the first sep, else (s, "", "")
partition(s, sep) ==
    LET i == FindFirst(s, sep)
    IN  IF i = 0 THEN <<s, <<>>, <<>>>>
        ELSE <<SubSeq(s, 1, i - 1), <<sep>>, SubSeq(s, i + 1, Len(s))>>

\* Variant: rpartition splitting at the first sep instead of the last
rpartitionFirst(s, sep) ==
    LET i == FindFirst(s, sep)
    IN  IF i = 0 THEN <<<<>>, <<>>, s>>
        ELSE <<SubSeq(s, 1, i - 1), <<sep>>, SubSeq(s, i + 1, Len(s))>>
\* str.rpartition(sep): (before, sep, after) around the last sep, else ("", "", s)
rpartition(s, sep) ==
    LET i == FindLast(s, sep)
    IN  IF i = 0 THEN <<<<>>, <<>>, s>>
        ELSE <<SubSeq(s, 1, i - 1), <<sep>>, SubSeq(s, i + 1, Len(s))>>

\* str.split(sep) with an explicit separator: empty fields are kept
RECURSIVE split(_, _)
split(s, sep) ==
    LET i == FindFirst(s, sep)
    IN  IF i = 0 THEN <<s>>
        ELSE <<SubSeq(s, 1, i - 1)>> \o split(SubSeq(s, i + 1, Len(s)), sep)

\* pathlib.Path(s): the root ("", "/" or "//") and the components, with empty
\* and "." components dropped; Path("") is Path(".")
LeadingSlashes(s) ==
    IF s = <<>> \/ s[1] # "/" THEN 0
    ELSE IF \A i \in DOMAIN s : s[i] = "/" THEN Len(s)
    ELSE (CHOOSE i \in DOMAIN s : s[i] # "/" /\ \A j \in 1..(i - 1) : s[j] = "/") - 1
Path(s) ==
    LET n == LeadingSlashes(s)
    IN  [root  |-> IF n = 0 THEN "" ELSE IF n = 2 THEN "//" ELSE "/",
         parts |-> SelectSeq(split(s, "/"), LAMBDA c : c # <<>> /\ c # <<".">>)]

\* ---------------------------------------------------------------- Package
\* Attribute values carry their Python type.
Str(s) == [t |-> "str", v |-> s]
List(l) == [t |-> "list", v |-> l]
None == [t |-> "None", v |-> <<>>]

\* Attribute names are sequences of words and separators: shlib-provides is
\* <<"shlib", "-", "provides">>.
F_pkgver == <<"pkgver">>
F_alternatives == <<"alternatives">>
F_build_options == <<"build", "_", "options">>
F_hold == <<"hold">>
F_shlib_provides == <<"shlib", "_", "provides">>
F_shlib_requires == <<"shlib", "_", "requires">>

\* The dataclass fields modelled (of the 41 the class declares)
FieldNames == {F_pkgver, F_alternatives, F_build_options, F_hold,
               F_shlib_provides, F_shlib_requires}
\* Fields declared with a plain default (= None) are class attributes; fields
\* declared with field(default_factory=...) or without a default are not.
ClassAttributes == {F_hold}

\* k.replace("-", "_")
replace(k) == [i \in DOMAIN k |-> IF k[i] = "-" THEN "_" ELSE k[i]]

\* setattr(self, k, v)
setattr(self, k, v) == [a \in (DOMAIN self) \cup {k} |-> IF a = k THEN v ELSE self[a]]
\* hasattr(self, a) / getattr(self, a)
hasattr(self, a) == a \in DOMAIN self \/ a \in ClassAttributes
getattr(self, a) == IF a \in DOMAIN self THEN self[a] ELSE None

\* lines 63-68: "for itm in v" walks the characters of the string v
AlternativesFromStr(v) ==
    [i \in DOMAIN v |->
        LET parts == partition(<<v[i]>>, ":")
        IN  <<parts[1], Path(parts[3])>>]

\* Package.__init__(self, **kwargs); kwargs is a dict, here its items in order
RECURSIVE InitItems(_, _)
InitItems(kvs, self) ==
    IF kvs = <<>> THEN self
    ELSE LET k0 == Head(kvs)[1]
             v0 == Head(kvs)[2]
             k  == IF \E i \in DOMAIN k0 : k0[i] = "-" THEN replace(k0) ELSE k0
         IN  IF k \notin FieldNames
             THEN InitItems(Tail(kvs), self)
             ELSE LET v == IF k = F_alternatives /\ v0.t = "str"
                              THEN List(AlternativesFromStr(v0.v))
                           ELSE IF k = F_build_options /\ v0.t = "str"
                              THEN List(split(v0.v, " "))
                           ELSE v0
                  IN  InitItems(Tail(kvs), setattr(self, k, v))
PackageInit(kw) == InitItems(kw, <<>>)

\* Package.pkgname / Package.version; AttributeError when pkgver was never set
pkgname(self) ==
    IF hasattr(self, F_pkgver)
    THEN [exc |-> NoExc, v |-> rpartition(getattr(self, F_pkgver).v, "-")[1]]
    ELSE [exc |-> Raise("AttributeError", "pkgver"), v |-> <<>>]
version(self) ==
    IF hasattr(self, F_pkgver)
    THEN [exc |-> NoExc, v |-> rpartition(getattr(self, F_pkgver).v, "-")[3]]
    ELSE [exc |-> Raise("AttributeError", "pkgver"), v |-> <<>>]

\* ---------------------------------------------------------- compute_stage
\* for shlib in shlibs: old_shlibs[shlib] = pkgname          (lines 120-121)
RECURSIVE RecordProvides(_, _, _)
RecordProvides(old, shlibs, name) ==
    IF shlibs = <<>> THEN old
    ELSE RecordProvides(Put(old, Head(shlibs), name), Tail(shlibs), name)

\* lines 118-121, from the i-th staged name on; st = [old, exc, reads]
RECURSIVE FindOld(_, _, _)
FindOld(self, i, st) ==
    IF i > Len(self.stage) THEN st
    ELSE LET name == self.stage[i][1]
         IN  IF ~Has(self.index, name) THEN FindOld(self, i + 1, st)
             ELSE LET p == Get(self.index, name)
                  IN  IF ~hasattr(p, F_shlib_provides)
                      THEN [st EXCEPT !.exc = Raise("AttributeError", "shlib_provides"),
                                      !.reads = @ + 1]
                      ELSE FindOld(self, i + 1,
                               [st EXCEPT !.old = RecordProvides(@, getattr(p, F_shlib_provides).v, name),
                                          !.reads = @ + 1])

\* Variant: a requiring package is recorded once, however often it lists shlib
AppendUsedOnce(used, shlib, name) ==
    LET now == IF Has(used, shlib) THEN Get(used, shlib) ELSE <<>>
    IN  Put(used, shlib,
            IF \E i \in DOMAIN now : now[i] = name THEN now ELSE Append(now, name))

\* used_shlibs[shlib].append(name) on a defaultdict(list)
AppendUsed(used, shlib, name) ==
    Put(used, shlib, Append(IF Has(used, shlib) THEN Get(used, shlib) ELSE <<>>, name))

\* Variant: lines 126-129 without the test "if shlib not in old_shlibs"
RECURSIVE RecordRequiresUnfiltered(_, _, _, _)
RecordRequiresUnfiltered(used, old, shlibs, name) ==
    IF shlibs = <<>> THEN used
    ELSE RecordRequiresUnfiltered(Put(used, Head(shlibs),
                                      Append(IF Has(used, Head(shlibs))
                                             THEN Get(used, Head(shlibs)) ELSE <<>>, name)),
                                  old, Tail(shlibs), name)

\* lines 126-129 for one package
RECURSIVE RecordRequires(_, _, _, _)
RecordRequires(used, old, shlibs, name) ==
    IF shlibs = <<>> THEN used
    ELSE RecordRequires(IF ~Has(old, Head(shlibs)) THEN used
                        ELSE AppendUsed(used, Head(shlibs), name),
                        old, Tail(shlibs), name)

\* self.stage.get(pkgname, self.index.get(pkgname))
Effective(self, name) ==
    IF Has(self.stage, name) THEN Get(self.stage, name) ELSE Get(self.index, name)

\* lines 124-129, from the i-th index name on; st = [used, exc, reads]
RECURSIVE FindUsed(_, _, _, _)
FindUsed(self, old, i, st) ==
    IF i > Len(self.index) THEN st
    ELSE LET name == self.index[i][1]
             p == Effective(self, name)
         IN  IF ~hasattr(p, F_shlib_requires)
             THEN [st EXCEPT !.exc = Raise("AttributeError", "shlib_requires"),
                             !.reads = @ + 1]
             ELSE FindUsed(self, old, i + 1,
                      [st EXCEPT !.used = RecordRequires(@, old, getattr(p, F_shlib_requires).v, name),
                                 !.reads = @ + 1])

\* for shlib in shlibs: if shlib in used_shlibs: del used_shlibs[shlib]
RECURSIVE PurgeEach(_, _)
PurgeEach(used, shlibs) ==
    IF shlibs = <<>> THEN used
    ELSE PurgeEach(IF Has(used, Head(shlibs)) THEN Del(used, Head(shlibs)) ELSE used,
                   Tail(shlibs))

\* Variant: lines 132-137 without the test "if pkgname in self.stage"
RECURSIVE PurgeIndexEvenStaged(_, _, _)
PurgeIndexEvenStaged(self, i, st) ==
    IF i > Len(self.index) THEN st
    ELSE LET p == self.index[i][2]
         IN  IF ~hasattr(p, F_shlib_provides)
             THEN [st EXCEPT !.exc = Raise("AttributeError", "shlib_provides"),
                             !.reads = @ + 1]
             ELSE PurgeIndexEvenStaged(self, i + 1,
                      [st EXCEPT !.used = PurgeEach(@, getattr(p, F_shlib_provides).v),
                                 !.reads = @ + 1])

\* lines 132-137, from the i-th index item on; st = [used, exc, reads]
RECURSIVE PurgeIndex(_, _, _)
PurgeIndex(self, i, st) ==
    IF i > Len(self.index) THEN st
    ELSE LET name == self.index[i][1]
             p == self.index[i][2]
         IN  IF Has(self.stage, name) THEN PurgeIndex(self, i + 1, st)
             ELSE IF ~hasattr(p, F_shlib_provides)
             THEN [st EXCEPT !.exc = Raise("AttributeError", "shlib_provides"),
                             !.reads = @ + 1]
             ELSE PurgeIndex(self, i + 1,
                      [st EXCEPT !.used = PurgeEach(@, getattr(p, F_shlib_provides).v),
                                 !.reads = @ + 1])

\* lines 140-143, from the i-th stage item on; st = [used, exc, reads]
RECURSIVE PurgeStage(_, _, _)
PurgeStage(self, i, st) ==
    IF i > Len(self.stage) THEN st
    ELSE LET p == self.stage[i][2]
         IN  IF ~hasattr(p, F_shlib_provides)
             THEN [st EXCEPT !.exc = Raise("AttributeError", "shlib_provides"),
                             !.reads = @ + 1]
             ELSE PurgeStage(self, i + 1,
                      [st EXCEPT !.used = PurgeEach(@, getattr(p, F_shlib_provides).v),
                                 !.reads = @ + 1])

\* old_shlibs.get(shlib)
OldProvider(old, shlib) == IF Has(old, shlib) THEN Get(old, shlib) ELSE "None"
StageDiff(shlib, provider, required_by) ==
    [shlib |-> shlib, provider |-> provider, required_by |-> required_by]
\* lines 146-148
Collect(used, old) ==
    [i \in DOMAIN used |->
        StageDiff(used[i][1], OldProvider(old, used[i][1]), used[i][2])]

\* ------------------------------------------------------------ the inputs
\* Attribute names as the property list spells them
K_shlib_provides == <<"shlib", "-", "provides">>
K_shlib_requires == <<"shlib", "-", "requires">>

\* A shlib attribute of a package dict: omitted, or a list of at most n names
ShlibAttrs(n, mayOmit) ==
    {[has |-> TRUE, l |-> l] : l \in SeqsUpTo(Libs, n)} \cup
    (IF mayOmit THEN {[has |-> FALSE, l |-> <<>>]} ELSE {})
\* The package dict with these two attributes, as the items of kwargs
PlistPkg(p, r) ==
    (IF p.has THEN <<<<K_shlib_provides, List(p.l)>>>> ELSE <<>>) \o
    (IF r.has THEN <<<<K_shlib_requires, List(r.l)>>>> ELSE <<>>)
\* The package dicts with at most e shlib entries and o omitted attributes
PlistPkgs(e, o) ==
    UNION {{PlistPkg(p, r) :
                r \in ShlibAttrs(e - Len(p.l), o - (IF p.has THEN 0 ELSE 1) > 0)} :
           p \in ShlibAttrs(e, o > 0)}

ShlibCount(p) ==
    (IF F_shlib_provides \in DOMAIN p THEN Len(p[F_shlib_provides].v) ELSE 0) +
    (IF F_shlib_requires \in DOMAIN p THEN Len(p[F_shlib_requires].v) ELSE 0)
OmittedCount(p) ==
    (IF F_shlib_provides \in DOMAIN p THEN 0 ELSE 1) +
    (IF F_shlib_requires \in DOMAIN p THEN 0 ELSE 1)
RECURSIVE Entries(_)
Entries(d) == IF d = <<>> THEN 0 ELSE ShlibCount(Head(d)[2]) + Entries(Tail(d))
RECURSIVE Omitted(_)
Omitted(d) == IF d = <<>> THEN 0 ELSE OmittedCount(Head(d)[2]) + Omitted(Tail(d))

Members == {"index.plist", "stage.plist"}
\* What the archive holds under a member name: nothing; a directory entry; a
\* file that is empty or not well-formed XML; a file of well-formed XML that
\* is no property list; a property list of package dicts.
MemberKinds == {"missing", "dir", "expat", "invalid", "ok"}

Schemes == {"http://", "https://", "ftp://", "socks5://"}
Sources == {[isPath |-> TRUE,  s |-> <<"/srv/", "x86_64-repodata">>],
            [isPath |-> FALSE, s |-> <<"https://", "host/x86_64-repodata">>],
            [isPath |-> FALSE, s |-> <<"file://", "x86_64-repodata">>]}
startswith(s, prefixes) == s # <<>> /\ s[1] \in prefixes

\* What has been read of a Package's properties: nothing yet
NothingRead == [pkgname |-> [exc |-> NoExc, v |-> <<>>],
                version |-> [exc |-> NoExc, v |-> <<>>],
                read    |-> {}]

\* ---------------------------------------------------------------- loading
Init ==
    /\ pc = "start"
    /\ archive \in [Members -> MemberKinds]
    /\ f = "None"
    /\ idx = <<>>
    /\ items = <<>>
    /\ index = <<>>
    /\ stage = <<>>
    /\ decoded = <<>>
    /\ rd = [index |-> <<>>, stage |-> <<>>, meta |-> "None"]
    /\ old_shlibs = <<>>
    /\ used_shlibs = <<>>
    /\ res = <<>>
    /\ exc = NoExc
    /\ reads = 0
    /\ kwargs = <<>>
    /\ pkg = <<>>
    /\ out = NothingRead

Fail(e) == pc' = "raised" /\ exc' = e

\* Repodata.from_repodata                                     (lines 83-90)
FromRepodata ==
    /\ pc = "start"
    /\ \E url \in Sources :
         pc' = IF url.isPath THEN "from_local"
               ELSE IF startswith(url.s, Schemes) THEN "from_remote"
               ELSE "from_local"
    /\ UNCHANGED <<loadVars, stageVars, pkgVars, exc>>

\* Repodata.from_local up to the call of _read_repodata       (lines 94-95)
FromLocal ==
    /\ pc \in {"start", "from_local"}
    /\ pc' = "read_repodata"
    /\ UNCHANGED <<loadVars, stageVars, pkgVars, exc>>

\* Repodata.from_remote up to the call of _read_repodata    (lines 100-102)
FromRemote ==
    /\ pc \in {"start", "from_remote"}
    /\ \E fetched \in BOOLEAN :
         IF fetched THEN pc' = "read_repodata" /\ exc' = exc
         ELSE Fail(Raise("URLError", "urlopen"))
    /\ UNCHANGED <<loadVars, stageVars, pkgVars>>

\* _read_repodata: the locals and the with statement          (lines 66-68)
OpenArchive ==
    /\ pc = "read_repodata"
    /\ index' = <<>>
    /\ stage' = <<>>
    /\ \E opened \in BOOLEAN :
         IF opened THEN pc' = "extract_index" /\ exc' = exc
         ELSE Fail(Raise("OSError", "open"))
    /\ UNCHANGED <<archive, f, idx, items, decoded, rd, stageVars, pkgVars>>

\* Variant: _extract_index letting tarfile's KeyError through
extract_indexKeyError(tar, fname) ==
    IF tar[fname] = "missing" THEN [exc |-> Raise("KeyError", fname), f |-> "None"]
    ELSE IF tar[fname] = "dir" THEN [exc |-> Raise("FileNotFoundError", "not a file"), f |-> "None"]
    ELSE [exc |-> NoExc, f |-> fname]

\* _extract_index(tar, fname)                                 (lines 44-51)
extract_index(tar, fname) ==
    IF tar[fname] = "missing" THEN [exc |-> Raise("FileNotFoundError", fname), f |-> "None"]
    ELSE IF tar[fname] = "dir" THEN [exc |-> Raise("FileNotFoundError", "not a file"), f |-> "None"]
    ELSE [exc |-> NoExc, f |-> fname]

Extract(at, fname) ==
    /\ pc = at
    /\ LET r == extract_index(archive, fname)
       IN  IF r.exc # NoExc THEN Fail(r.exc) /\ f' = f
           ELSE pc' = "load" /\ f' = r.f /\ exc' = exc
    /\ UNCHANGED <<archive, idx, items, index, stage, decoded, rd, stageVars, pkgVars>>

\* f = _extract_index(tar, "index.plist")                       (line 69)
ExtractIndex == Extract("extract_index", "index.plist")
\* f = _extract_index(tar, "stage.plist")                       (line 71)
ExtractStage == Extract("extract_stage", "stage.plist")

\* return idx, and the assignment of the result in _read_repodata
\*                                                        (lines 62, 70, 72)
ReturnIdx(v) ==
    /\ decoded' = setattr(decoded, f, v)
    /\ IF f = "index.plist"
       THEN index' = v /\ stage' = stage /\ pc' = "extract_stage"
       ELSE stage' = v /\ index' = index /\ pc' = "return"

\* Variant: _read_index with a bare "except:", absorbing every decoder error
LoadPlistBareExcept ==
    /\ pc = "load"
    /\ idx' = <<>>
    /\ items' = <<>>
    /\ IF archive[f] \in {"expat", "invalid"} THEN ReturnIdx(<<>>) /\ exc' = exc
       ELSE pc' = "items" /\ UNCHANGED <<decoded, index, stage, exc>>
    /\ UNCHANGED <<archive, f, rd, stageVars, pkgVars>>

\* _read_index: idx = {} and plistlib.load                    (lines 55-61)
LoadPlist ==
    /\ pc = "load"
    /\ idx' = <<>>
    /\ items' = <<>>
    /\ IF archive[f] = "expat" THEN ReturnIdx(<<>>) /\ exc' = exc
       ELSE IF archive[f] = "invalid"
       THEN Fail(Raise("ValueError", f)) /\ UNCHANGED <<decoded, index, stage>>
       ELSE pc' = "items" /\ UNCHANGED <<decoded, index, stage, exc>>
    /\ UNCHANGED <<archive, f, rd, stageVars, pkgVars>>

\* _read_index: idx[pkgname] = Package(**pkg) for the next item  (line 58)
ReadItem ==
    /\ pc = "items"
    /\ \E name \in Names \ KeySet(idx) :
         \E raw \in PlistPkgs(MaxEntries - Entries(index) - Entries(idx),
                              MaxOmitted - Omitted(index) - Omitted(idx)) :
             /\ idx' = Put(idx, name, PackageInit(raw))
             /\ items' = Append(items, <<name, raw>>)
    /\ UNCHANGED <<pc, archive, f, index, stage, decoded, rd, stageVars, pkgVars, exc>>

\* _read_index: the items are exhausted                         (line 62)
EndItems ==
    /\ pc = "items"
    /\ ReturnIdx(idx)
    /\ UNCHANGED <<archive, f, idx, items, rd, stageVars, pkgVars, exc>>

\* return index, stage, None and cls(index, stage, meta)
\*                                                     (lines 73, 96, 103)
Return ==
    /\ pc = "return"
    /\ rd' = [index |-> index, stage |-> stage, meta |-> "None"]
    /\ pc' = "loaded"
    /\ UNCHANGED <<archive, f, idx, items, index, stage, decoded, stageVars, pkgVars, exc>>

\* ---------------------------------------------------------- compute_stage
\* Variant: compute_stage without the early return of lines 110-112
ComputeStageNoEarlyReturn ==
    /\ pc = "loaded"
    /\ res' = <<>>
    /\ pc' = "find_old" /\ old_shlibs' = <<>> /\ used_shlibs' = <<>>
    /\ UNCHANGED <<loadVars, reads, pkgVars, exc>>

\* lines 108-115
ComputeStage ==
    /\ pc = "loaded"
    /\ res' = <<>>
    /\ IF Len(rd.stage) = 0
       THEN pc' = "done" /\ UNCHANGED <<old_shlibs, used_shlibs>>
       ELSE pc' = "find_old" /\ old_shlibs' = <<>> /\ used_shlibs' = <<>>
    /\ UNCHANGED <<loadVars, reads, pkgVars, exc>>

\* lines 117-121
FindOldShlibs ==
    /\ pc = "find_old"
    /\ LET st == FindOld(rd, 1, [old |-> old_shlibs, exc |-> NoExc, reads |-> reads])
       IN  /\ old_shlibs' = st.old
           /\ reads' = st.reads
           /\ IF st.exc # NoExc THEN Fail(st.exc)
              ELSE pc' = "find_used" /\ exc' = exc
    /\ UNCHANGED <<loadVars, used_shlibs, res, pkgVars>>

\* lines 123-129
FindUsedShlibs ==
    /\ pc = "find_used"
    /\ LET st == FindUsed(rd, old_shlibs, 1,
                          [used |-> used_shlibs, exc |-> NoExc, reads |-> reads])
       IN  /\ used_shlibs' = st.used
           /\ reads' = st.reads
           /\ IF st.exc # NoExc THEN Fail(st.exc)
              ELSE pc' = "purge_index" /\ exc' = exc
    /\ UNCHANGED <<loadVars, old_shlibs, res, pkgVars>>

\* lines 131-137
PurgeFulfilledByIndex ==
    /\ pc = "purge_index"
    /\ LET st == PurgeIndex(rd, 1, [used |-> used_shlibs, exc |-> NoExc, reads |-> reads])
       IN  /\ used_shlibs' = st.used
           /\ reads' = st.reads
           /\ IF st.exc # NoExc THEN Fail(st.exc)
              ELSE pc' = "purge_stage" /\ exc' = exc
    /\ UNCHANGED <<loadVars, old_shlibs, res, pkgVars>>

\* lines 139-143
PurgeFulfilledByStage ==
    /\ pc = "purge_stage"
    /\ LET st == PurgeStage(rd, 1, [used |-> used_shlibs, exc |-> NoExc, reads |-> reads])
       IN  /\ used_shlibs' = st.used
           /\ reads' = st.reads
           /\ IF st.exc # NoExc THEN Fail(st.exc)
              ELSE pc' = "collect" /\ exc' = exc
    /\ UNCHANGED <<loadVars, old_shlibs, res, pkgVars>>

\* lines 145-149
CollectInconsistent ==
    /\ pc = "collect"
    /\ res' = Collect(used_shlibs, old_shlibs)
    /\ pc' = "done"
    /\ UNCHANGED <<loadVars, old_shlibs, used_shlibs, reads, pkgVars, exc>>

Next ==
    \/ FromRepodata \/ FromLocal \/ FromRemote \/ OpenArchive
    \/ ExtractIndex \/ LoadPlist \/ ReadItem \/ EndItems \/ ExtractStage \/ Return
    \/ ComputeStage \/ FindOldShlibs \/ FindUsedShlibs
    \/ PurgeFulfilledByIndex \/ PurgeFulfilledByStage \/ CollectInconsistent

Spec == Init /\ [][Next]_vars

\* ----------------------------------------------------- Package, by itself
PkgverChars == {"a", "-", "1"}
AltChars == {"x", ":", "/"}
OptChars == {"D", " "}
K_build_options == <<"build", "-", "options">>
K_unknown == <<"totally", "-", "unknown", "-", "field">>

\* The attribute mappings Package is constructed from: one string-valued
\* attribute, or one of a few mappings of other shapes
PkgverKwargs == {<<<<F_pkgver, Str(s)>>>> : s \in SeqsUpTo(PkgverChars, MaxStrLen)}
AltKwargs == {<<<<F_alternatives, Str(s)>>>> : s \in SeqsUpTo(AltChars, MaxStrLen)}
OptKwargs == {<<<<K_build_options, Str(s)>>>> : s \in SeqsUpTo(OptChars, MaxStrLen)}
StructuredAltKwargs == <<<<F_alternatives, List(<<<<<<"x">>, Path(<<"/", "x">>)>>>>)>>>>
UnknownKeyKwargs == <<<<K_unknown, Str(<<"x">>)>>, <<F_pkgver, Str(<<"a", "-", "1">>)>>>>
BothSpellingsKwargs == <<<<K_shlib_provides, List(<<"libfoo.so.1">>)>>,
                         <<F_shlib_provides, List(<<>>)>>>>

InitPackage ==
    /\ pc = "new"
    /\ \/ kwargs \in PkgverKwargs
       \/ kwargs \in AltKwargs
       \/ kwargs \in OptKwargs
       \/ kwargs \in {StructuredAltKwargs}
       \/ kwargs \in {UnknownKeyKwargs}
       \/ kwargs \in {BothSpellingsKwargs}
       \/ kwargs = <<>>
    /\ pkg = <<>>
    /\ out = NothingRead
    /\ archive = [m \in Members |-> "missing"]
    /\ f = "None"
    /\ idx = <<>>
    /\ items = <<>>
    /\ index = <<>>
    /\ stage = <<>>
    /\ decoded = <<>>
    /\ rd = [index |-> <<>>, stage |-> <<>>, meta |-> "None"]
    /\ old_shlibs = <<>>
    /\ used_shlibs = <<>>
    /\ res = <<>>
    /\ exc = NoExc
    /\ reads = 0

\* Package(**kwargs)                                (package.py lines 53-72)
Construct ==
    /\ pc = "new"
    /\ pkg' = PackageInit(kwargs)
    /\ pc' = "constructed"
    /\ UNCHANGED <<loadVars, stageVars, kwargs, out, exc>>

\* self.pkgname                                     (package.py lines 77-79)
ReadPkgname ==
    /\ pc = "constructed"
    /\ "pkgname" \notin out.read
    /\ out' = [out EXCEPT !.pkgname = pkgname(pkg), !.read = @ \cup {"pkgname"}]
    /\ UNCHANGED <<pc, loadVars, stageVars, kwargs, pkg, exc>>

\* self.version                                     (package.py lines 81-84)
ReadVersion ==
    /\ pc = "constructed"
    /\ "version" \notin out.read
    /\ out' = [out EXCEPT !.version = version(pkg), !.read = @ \cup {"version"}]
    /\ UNCHANGED <<pc, loadVars, stageVars, kwargs, pkg, exc>>

NextPackage == Construct \/ ReadPkgname \/ ReadVersion

SpecPackage == InitPackage /\ [][NextPackage]_vars

\* ------------------------------------------------------------- properties
\* The shared libraries a package lists under an attribute (none when omitted)
Shlibs(p, a) == IF a \in DOMAIN p THEN p[a].v ELSE <<>>
Elems(q) == {q[i] : i \in DOMAIN q}
Committed(n) == Get(rd.index, n)
Staged(n) == Get(rd.stage, n)
IndexNames == KeySet(rd.index)
StageNames == KeySet(rd.stage)
EffectiveVersion(n) == IF n \in StageNames THEN Staged(n) ELSE Committed(n)

\* compute_stage has been entered / has ended
Started ==
    \/ pc \in {"find_old", "find_used", "purge_index", "purge_stage", "collect", "done"}
    \/ pc = "raised" /\ exc.type = "AttributeError"
Finished == pc = "done" \/ (pc = "raised" /\ exc.type = "AttributeError")
ResShlibs == {res[i].shlib : i \in DOMAIN res}

\* The four conditions of C1 on a library
FormerlyProvided(L) ==
    \E n \in StageNames \cap IndexNames : L \in Elems(Shlibs(Committed(n), F_shlib_provides))
StillRequired(L) ==
    \E n \in IndexNames : L \in Elems(Shlibs(EffectiveVersion(n), F_shlib_requires))
KeptProvides(L) ==
    \E n \in IndexNames \ StageNames : L \in Elems(Shlibs(Committed(n), F_shlib_provides))
StagedProvides(L) ==
    \E n \in StageNames : L \in Elems(Shlibs(Staged(n), F_shlib_provides))
Inconsistent(L) ==
    FormerlyProvided(L) /\ StillRequired(L) /\ ~KeptProvides(L) /\ ~StagedProvides(L)

\* The first scenario of the specification: index {a provides L, b requires L},
\* stage {a' providing nothing}
Scenario(a, b, L) ==
    /\ a # b
    /\ IndexNames = {a, b}
    /\ KeySeq(rd.stage) = <<a>>
    /\ Shlibs(Committed(a), F_shlib_provides) = <<L>>
    /\ Shlibs(Committed(a), F_shlib_requires) = <<>>
    /\ Shlibs(Committed(b), F_shlib_provides) = <<>>
    /\ Shlibs(Committed(b), F_shlib_requires) = <<L>>
    /\ Shlibs(Staged(a), F_shlib_provides) = <<>>
    /\ Shlibs(Staged(a), F_shlib_requires) = <<>>

StageDiffsAreTheInconsistentLibs ==
    /\ pc = "done"
    /\ ResShlibs = {L \in Libs : Inconsistent(L)}
    /\ Cardinality(ResShlibs) = Len(res)
    /\ \A a \in Names, b \in Names, L \in Libs :
         Scenario(a, b, L) => res = <<StageDiff(L, a, <<b>>)>>

\* C1: for every Repodata with a non-empty stage, compute_stage returns exactly
\* one StageDiff per library that a replaced package used to provide, that the
\* effective version of an index package requires, and that neither a kept
\* index package nor a staged package provides; in the first scenario of the
\* specification that is [StageDiff(L, A, [B])].
C1_ExactlyTheInconsistentLibs ==
    (Finished /\ rd.stage # <<>>) => StageDiffsAreTheInconsistentLibs

\* The same, for the Repodata none of whose packages omits a shlib attribute
\* (compute_stage reads no omitted attribute there).
StageDiffsWhenNothingOmitted ==
    (Finished /\ rd.stage # <<>> /\ Omitted(rd.index) + Omitted(rd.stage) = 0)
        => StageDiffsAreTheInconsistentLibs

\* The packages that survive the commit: every staged package, and the index
\* packages whose name is not staged
RequiredBySurvivor(L) ==
    \/ \E n \in StageNames : L \in Elems(Shlibs(Staged(n), F_shlib_requires))
    \/ \E n \in IndexNames \ StageNames : L \in Elems(Shlibs(Committed(n), F_shlib_requires))
ProvidedBySurvivor(L) == KeptProvides(L) \/ StagedProvides(L)

\* C2 (as claimed): every library that a surviving package requires and no
\* surviving package provides is the shlib of a returned StageDiff.
C2_EveryUnprovidedLibReported ==
    pc = "done" =>
        \A L \in Libs : (RequiredBySurvivor(L) /\ ~ProvidedBySurvivor(L)) => L \in ResShlibs

\* C2 (amended): every library that a replaced package used to provide, that
\* the effective version of an index package requires and that no surviving
\* package provides is the shlib of a StageDiff of the returned list.
C2_EveryLostLibReported ==
    pc = "done" =>
        \A L \in Libs :
            (FormerlyProvided(L) /\ StillRequired(L) /\ ~ProvidedBySurvivor(L))
                => L \in ResShlibs
C2_Witness ==
    /\ pc = "done"
    /\ \E L \in Libs : FormerlyProvided(L) /\ StillRequired(L) /\ ~ProvidedBySurvivor(L)
    /\ \E L \in Libs : RequiredBySurvivor(L) /\ ~ProvidedBySurvivor(L) /\ ~FormerlyProvided(L)

\* C3: compute_stage raises no exception, whatever attributes the packages'
\* mappings omitted.
C3_NeverRaises == ~(pc = "raised" /\ exc.type = "AttributeError")

\* C4: with an empty stage compute_stage returns the empty list, whatever the
\* index holds, and reads no package attribute.
C4_EmptyStageEmptyResult ==
    (Started /\ rd.stage = <<>>) => (pc = "done" /\ res = <<>> /\ reads = 0)
C4_Witness ==
    /\ pc = "done"
    /\ rd.stage = <<>>
    /\ Omitted(rd.index) > 0
    /\ \E L \in Libs : RequiredBySurvivor(L) /\ ~ProvidedBySurvivor(L)

\* C5: at every point the keys of used_shlibs are keys of old_shlibs, and the
\* provider of every returned StageDiff is the name of a package in both the
\* stage and the index whose committed version provides the StageDiff's shlib.
C5_ProviderPresent ==
    /\ KeySet(used_shlibs) \subseteq KeySet(old_shlibs)
    /\ pc = "done" =>
         \A i \in DOMAIN res :
            /\ res[i].provider # "None"
            /\ res[i].provider \in StageNames \cap IndexNames
            /\ res[i].shlib \in Elems(Shlibs(Committed(res[i].provider), F_shlib_provides))
C5_Witness ==
    /\ pc = "done"
    /\ res # <<>>
    /\ Cardinality(StageNames \cap IndexNames) = 2

\* The requirements of the effective versions, in index order
RECURSIVE EffectiveRequires(_)
EffectiveRequires(i) ==
    IF i > Len(rd.index) THEN <<>>
    ELSE LET n == rd.index[i][1]
             q == Shlibs(EffectiveVersion(n), F_shlib_requires)
         IN  [j \in DOMAIN q |-> <<q[j], n>>] \o EffectiveRequires(i + 1)
FirstUse(L) ==
    LET q == EffectiveRequires(1)
    IN  CHOOSE i \in DOMAIN q : q[i][1] = L /\ \A j \in 1..(i - 1) : q[j][1] # L

LoaderRaised == pc = "raised" /\ exc.type # "AttributeError"
LoaderReturned == Started \/ pc = "loaded"
\* The archive was opened: the call got as far as extracting members
Opened == ~(pc \in {"start", "from_local", "from_remote", "read_repodata"})
          /\ exc.type \notin {"URLError", "OSError"}
\* The _read_index call on member m has ended
ReadEnded(m) == Opened /\ (m \in DOMAIN decoded \/ (f = m /\ pc # "load"))
NotAFile(m) == archive[m] \in {"missing", "dir"}

\* C7: _read_index returns an empty RepoIndex, and raises nothing, on a stream
\* the decoder rejects with an ExpatError; any other failure of the decoder
\* propagates; a decoded stream yields one Package per decoded package name.
C7_ReadIndexTolerance ==
    \A m \in Members :
        /\ (ReadEnded(m) /\ archive[m] = "expat")
              => (m \in DOMAIN decoded /\ decoded[m] = <<>>
                  /\ ~(pc = "raised" /\ exc.arg = m))
        /\ (ReadEnded(m) /\ archive[m] = "invalid")
              => (m \notin DOMAIN decoded /\ pc = "raised" /\ exc = Raise("ValueError", m))
        /\ (ReadEnded(m) /\ archive[m] = "ok" /\ f = m /\ pc # "items")
              => /\ m \in DOMAIN decoded
                 /\ KeySeq(decoded[m]) = KeySeq(items)
                 /\ Cardinality(KeySet(decoded[m])) = Len(items)
                 /\ \A i \in DOMAIN items : decoded[m][i][2] = PackageInit(items[i][2])
C7_Witness ==
    /\ archive["index.plist"] = "expat"
    /\ "index.plist" \in DOMAIN decoded
    /\ "stage.plist" \in DOMAIN decoded
    /\ Len(decoded["stage.plist"]) = 2

LoadsBothInOrder ==
    /\ LoaderReturned
          => /\ Members \subseteq DOMAIN decoded
             /\ rd = [index |-> decoded["index.plist"],
                      stage |-> decoded["stage.plist"],
                      meta  |-> "None"]
    /\ "stage.plist" \in DOMAIN decoded => "index.plist" \in DOMAIN decoded
    /\ (f = "stage.plist") => "index.plist" \in DOMAIN decoded
    /\ (\E m \in Members : NotAFile(m)) => ~LoaderReturned
    /\ (pc = "raised" /\ exc.type = "FileNotFoundError")
          => LET m == IF NotAFile("index.plist") THEN "index.plist" ELSE "stage.plist"
             IN  exc.arg = IF archive[m] = "missing" THEN m ELSE "not a file"

\* C9 (as claimed): a loader call returns the Repodata decoded from
\* index.plist and stage.plist, in that order, with no meta, or fails; when a
\* member is missing or no file it fails with FileNotFoundError, which for a
\* missing member carries the member's name.
C9_MissingMemberIsFileNotFound ==
    /\ LoadsBothInOrder
    /\ (LoaderRaised /\ Opened /\ \E m \in Members : NotAFile(m))
          => exc.type = "FileNotFoundError"

\* C9 (amended): as above, but a stage.plist that is missing or no file is
\* only reached when decoding index.plist did not fail: if plistlib rejects
\* index.plist with an error other than ExpatError, that error is the one the
\* call fails with.
C9_FirstFailurePropagates ==
    /\ LoadsBothInOrder
    /\ (LoaderRaised /\ Opened /\ \E m \in Members : NotAFile(m))
          => IF archive["index.plist"] = "invalid"
             THEN exc = Raise("ValueError", "index.plist")
             ELSE exc.type = "FileNotFoundError"
C9_Witness ==
    /\ pc = "raised"
    /\ exc = Raise("FileNotFoundError", "stage.plist")
    /\ "index.plist" \in DOMAIN decoded
    /\ Len(decoded["index.plist"]) = 2

\* ------------------------------------------------- properties of Package
HasHyphen(q) == \E i \in DOMAIN q : q[i] = "-"

\* C6: an alternatives value given as a string becomes one entry, the string
\* split at its first colon into a name and a path.
C6_AlternativesStringIsOneEntry ==
    (pc = "constructed" /\ kwargs \in AltKwargs /\ kwargs[1][2].v # <<>>)
        => LET v == kwargs[1][2].v
               parts == partition(v, ":")
           IN  getattr(pkg, F_alternatives) = List(<<<<parts[1], Path(parts[3])>>>>)

\* C8: for a pkgver with a hyphen, pkgname is what precedes the last hyphen
\* and version what follows it; version has no hyphen and
\* pkgname + "-" + version is pkgver.
C8_PkgverSplitsAtLastHyphen ==
    (pc = "constructed" /\ out.read = {"pkgname", "version"}
        /\ kwargs \in PkgverKwargs /\ HasHyphen(kwargs[1][2].v))
        => LET s == kwargs[1][2].v
               n == out.pkgname.v
               v == out.version.v
           IN  /\ out.pkgname.exc = NoExc /\ out.version.exc = NoExc
               /\ \E i \in DOMAIN s :
                    /\ s[i] = "-"
                    /\ n = SubSeq(s, 1, i - 1)
                    /\ v = SubSeq(s, i + 1, Len(s))
               /\ ~HasHyphen(v)
               /\ n \o <<"-">> \o v = s
C8_Witness ==
    /\ pc = "constructed"
    /\ out.read = {"pkgname", "version"}
    /\ kwargs \in PkgverKwargs
    /\ HasHyphen(out.pkgname.v)
    /\ out.version.v # <<>>

====
